---- MODULE Spec2Model ----
(***************************************************************************)
(* crypto-lens: token discovery, filtering, eviction and sentiment         *)
(* aggregation.  The wom service (src/wom) keeps a SQLite table of tracked *)
(* tokens; the crypto_lens scripts score cashtags with FinBERT.            *)
(***************************************************************************)
EXTENDS Integers, Sequences, FiniteSets, TLC

VARIABLES
    tokens,          \* the `tokens` table: the set of its rows
    now,             \* wall clock (UTC), whole part: the resolution of CURRENT_TIMESTAMP
    micro,           \* wall clock, fractional part in millionths
    pc,              \* position of each run_scheduled_job request
    filtered,        \* each request's local `tokens` (fetch_tokens' result)
    results,         \* each request's local `results`: the symbols analyzed
    polls,           \* history: status requests of each request answered "not yet"
    trace,           \* history: the steps each request's cycle has performed
    outcome,         \* history: how the last request of each client ended (while the
                     \* next one runs: only whether its discovery had failed)
    firstAdmit,      \* history: when each tracked symbol was first inserted
    scoredOnce,      \* history: tracked symbols whose row has held a score
    expected_key,    \* the environment's SCHEDULE_KEY as os.getenv returns it
    sentKey,         \* history: the `key` of the last request of each client
    db,              \* init_db: the tables of the database file it opens
    opened,          \* history: how often init_db has run on that file
    lastEvicted,     \* history: symbols the step just taken removed from the table
    dataset,         \* get_filtered_pairs: the items of the Apify dataset
    pairs,           \* get_filtered_pairs: its outcome
    label,           \* extract_and_format_symbol: its argument
    formatted,       \* extract_and_format_symbol: its outcome
    posts,           \* analyze_cashtags: dataset items not yet iterated
    iterated,        \* history: the dataset items already iterated
    bullishness_scores, \* analyze_cashtags: the list of per-post scores
    data,            \* analyze_cashtags: the rows appended to `data`
    running,         \* which script's analyze_cashtags was called
    cashtags,        \* analyze_cashtags: its argument
    search_terms,    \* history: the searchTerms of the actor calls made so far
    feeds,           \* history: what the post feed answered to each call
    overall_sentiments \* twitter_sentiment.analyze_cashtags: its dict

vars == <<tokens, now, micro, pc, filtered, results, polls, trace, outcome, firstAdmit, scoredOnce, lastEvicted,
          expected_key, sentKey, db, opened,
          dataset, pairs, label, formatted, posts, iterated, bullishness_scores, data,
          running, cashtags, search_terms, feeds, overall_sentiments>>

storeVars  == <<tokens, now, micro, pc, filtered, results, polls, trace, outcome, firstAdmit, scoredOnce, lastEvicted,
                expected_key, sentKey>>
reopenVars == <<db, opened>>
pairsVars  == <<dataset, pairs>>
symbolVars == <<label, formatted>>
scoreVars  == <<posts, iterated, bullishness_scores, data>>
cashtagVars == <<running, cashtags, search_terms, feeds, overall_sentiments>>

(***************************************************************************)
(* Bounds of the model.                                                    *)
(***************************************************************************)
MaxBatch == 2        \* items in one discovery dataset
MaxLabelLen == 5     \* atoms in one raw label
MaxTime == 72        \* last hour the clock reaches
TickHours == 24      \* hours between two observations of the clock
MaxPolls == 2        \* status requests counted in one poll loop
MaxReopens == 2      \* runs of init_db on one database file
MaxPosts == 3        \* posts returned for one cashtag
MaxCashtags == 2     \* cashtags in one call of analyze_cashtags
MaxCashtagLen == 8   \* characters of a cashtag, the marker included

(***************************************************************************)
(* Python / JSON values.  A JSON field is missing, null or holds a value.  *)
(***************************************************************************)
Missing(z) == [kind |-> "missing", v |-> z]
Null(z)    == [kind |-> "null", v |-> z]
Val(x)     == [kind |-> "val", v |-> x]

\* dict.get(key, default): the default only replaces an absent key
ItemGet(field, default) == IF field.kind = "missing" THEN default ELSE field

(***************************************************************************)
(* Symbol normalizer: extract_and_format_symbol.                           *)
(* A string label is a sequence of atoms (words and whitespace atoms); its *)
(* text is their concatenation.  A non-string label has no split().        *)
(***************************************************************************)
Whitespace == {" ", "\t"}
PoolTypes == {"DLMM", "CLMM", "CPMM"}
UnknownSymbol == "$Unknown"

StrLabel(atoms) == [isStr |-> TRUE, atoms |-> atoms]
NonStrLabel == [isStr |-> FALSE, atoms |-> <<>>]

RECURSIVE Join(_)
Join(atoms) == IF atoms = <<>> THEN "" ELSE Head(atoms) \o Join(Tail(atoms))

\* str.split(): maximal runs of non-whitespace, no empty strings
RECURSIVE SplitFrom(_, _, _, _)
SplitFrom(atoms, i, cur, acc) ==
    IF i > Len(atoms)
    THEN IF cur = <<>> THEN acc ELSE Append(acc, cur)
    ELSE IF atoms[i] \in Whitespace
         THEN IF cur = <<>> THEN SplitFrom(atoms, i + 1, <<>>, acc)
              ELSE SplitFrom(atoms, i + 1, <<>>, Append(acc, cur))
         ELSE SplitFrom(atoms, i + 1, Append(cur, atoms[i]), acc)

Split(atoms) == SplitFrom(atoms, 1, <<>>, <<>>)

\* str.strip(): drop leading and trailing whitespace
RECURSIVE LStrip(_)
LStrip(atoms) ==
    IF atoms # <<>> /\ Head(atoms) \in Whitespace THEN LStrip(Tail(atoms)) ELSE atoms

RECURSIVE RStrip(_)
RStrip(atoms) ==
    IF atoms # <<>> /\ atoms[Len(atoms)] \in Whitespace
    THEN RStrip(SubSeq(atoms, 1, Len(atoms) - 1)) ELSE atoms

Strip(atoms) == RStrip(LStrip(atoms))

Returned(x) == [exc |-> "none", val |-> x]
Raised(e, z) == [exc |-> e, val |-> z]

\* parts[k] with Python's 0-based k: IndexError past the end
PyIndex(parts, k) ==
    IF k + 1 <= Len(parts) THEN Returned(parts[k + 1]) ELSE Raised("IndexError", <<>>)

\* the body of the try block
FormatSymbolBody(token_symbol_raw) ==
    IF ~token_symbol_raw.isStr THEN Raised("AttributeError", "")
    ELSE LET parts == Split(token_symbol_raw.atoms)
             symbol == IF Len(parts) > 1 /\ Join(parts[2]) \in PoolTypes
                       THEN PyIndex(parts, 2)
                       ELSE PyIndex(parts, 1)
         IN IF symbol.exc # "none" THEN Raised(symbol.exc, "")
            ELSE Returned("$" \o Join(Strip(symbol.val)))

\* (mutant) the except clause without IndexError
extract_and_format_symbol_attr_only(token_symbol_raw) ==
    LET r == FormatSymbolBody(token_symbol_raw)
    IN IF r.exc \in {"AttributeError"} THEN Returned(UnknownSymbol) ELSE r

extract_and_format_symbol(token_symbol_raw) ==
    LET r == FormatSymbolBody(token_symbol_raw)
    IN IF r.exc \in {"IndexError", "AttributeError"} THEN Returned(UnknownSymbol) ELSE r

(***************************************************************************)
(* Candidate filter and deduplicator: the item loop of get_filtered_pairs. *)
(***************************************************************************)
MIN_MAKERS == 7000
MAX_AGE == 24

\* (mutant) age < MAX_AGE
FilterConditionStrictAge(age, maker_count) ==
    IF age.kind = "null" THEN "reject"
    ELSE IF ~(age.v < 24) THEN "reject"
    ELSE IF maker_count.kind = "null" THEN "TypeError"
    ELSE IF maker_count.v >= 7000 THEN "admit" ELSE "reject"

\* the admission test `age is not None and age <= MAX_AGE and
\* maker_count >= MIN_MAKERS`, evaluated left to right; comparing None with
\* a number raises TypeError
FilterCondition(age, maker_count) ==
    IF age.kind = "null" THEN "reject"
    ELSE IF ~(age.v <= MAX_AGE) THEN "reject"
    ELSE IF maker_count.kind = "null" THEN "TypeError"
    ELSE IF maker_count.v >= MIN_MAKERS THEN "admit" ELSE "reject"

\* the fields read from one dataset item, with item.get's defaults
ItemAge(item) == ItemGet(item.age, Null(0))
ItemMakerCount(item) == ItemGet(item.makerCount, Val(0))

\* the dict appended to filtered_tokens for one admitted item
TokenOf(item, token_symbol) ==
    [token_name     |-> ItemGet(item.tokenName, Val("Unknown")),
     token_symbol   |-> token_symbol,
     address        |-> ItemGet(item.address, Val("N/A")),
     age_hours      |-> ItemAge(item),
     volume_usd     |-> ItemGet(item.volumeUsd, Val(0)),
     maker_count    |-> ItemMakerCount(item),
     liquidity_usd  |-> ItemGet(item.liquidityUsd, Val(0)),
     market_cap_usd |-> ItemGet(item.marketCapUsd, Val(0)),
     priceChange1h  |-> ItemGet(item.priceChange1h, Val(0))]

\* (mutant) the uniqueness test dropped
IsNewSymbolAlways(token_symbol, unique_symbols) == TRUE

\* `token_symbol not in unique_symbols`
IsNewSymbol(token_symbol, unique_symbols) == token_symbol \notin unique_symbols

\* `for item in items:` from item i on, with the loop's two accumulators
RECURSIVE FilterLoop(_, _, _, _)
FilterLoop(items, i, filtered_tokens, unique_symbols) ==
    IF i > Len(items) THEN Returned(filtered_tokens)
    ELSE LET item == items[i]
             sym == extract_and_format_symbol(item.tokenSymbol)
             cond == FilterCondition(ItemAge(item), ItemMakerCount(item))
         IN IF sym.exc # "none" THEN Raised(sym.exc, <<>>)
            ELSE IF cond = "TypeError" THEN Raised("TypeError", <<>>)
            ELSE IF cond = "admit" /\ IsNewSymbol(sym.val, unique_symbols)
                 THEN FilterLoop(items, i + 1,
                                 Append(filtered_tokens, TokenOf(item, sym.val)),
                                 unique_symbols \cup {sym.val})
                 ELSE FilterLoop(items, i + 1, filtered_tokens, unique_symbols)

\* (mutant) the items iterated last to first
ReverseSeq(q) == [i \in 1..Len(q) |-> q[Len(q) + 1 - i]]
get_filtered_pairs_reversed(items) == FilterLoop(ReverseSeq(items), 1, <<>>, {})

\* get_filtered_pairs once the dataset items have been fetched
get_filtered_pairs(items) == FilterLoop(items, 1, <<>>, {})

(***************************************************************************)
(* Timestamps.  SQLite's CURRENT_TIMESTAMP is a fixed-width, zero-padded   *)
(* text without a fraction; sqlite3 adapts a Python datetime to its ISO    *)
(* text, which has a fraction when microsecond # 0 and ends in the UTC     *)
(* offset.  Texts are sequences of character codes and compare as SQLite's *)
(* BINARY collation does.                                                  *)
(***************************************************************************)
Digit(d) == 48 + d
TimestampText(h) == <<Digit(h \div 100), Digit((h \div 10) % 10), Digit(h % 10)>>

MicroText(m) ==
    <<Digit(m \div 100000), Digit((m \div 10000) % 10), Digit((m \div 1000) % 10),
      Digit((m \div 100) % 10), Digit((m \div 10) % 10), Digit(m % 10)>>

UtcOffsetText == <<43, 48, 48, 58, 48, 48>>     \* "+00:00"

\* CURRENT_TIMESTAMP at wall clock h hours (any microsecond)
CurrentTimestamp(h) == TimestampText(h)

\* the default adapter: datetime.isoformat(" ") of an aware UTC datetime
AdaptDatetime(h, m) ==
    TimestampText(h) \o (IF m = 0 THEN <<>> ELSE <<46>> \o MicroText(m)) \o UtcOffsetText

MinLen(a, b) == IF Len(a) <= Len(b) THEN Len(a) ELSE Len(b)

\* memcmp over the common prefix, then the shorter text first
TextLess(a, b) ==
    \/ \E i \in 1..MinLen(a, b) :
          /\ a[i] < b[i]
          /\ \A j \in 1..(i - 1) : a[j] = b[j]
    \/ /\ Len(a) < Len(b)
       /\ \A j \in 1..Len(a) : a[j] = b[j]

TextLessEq(a, b) == a = b \/ TextLess(a, b)

(***************************************************************************)
(* Token store: the `tokens` table of init_db, store_tokens and            *)
(* delete_old_tokens.                                                      *)
(***************************************************************************)
RETENTION_HOURS == 24

SqlNull == Null(0)

\* f"{token.get('address')}": a None address prints as "None"
AddressText(address) == IF address.kind = "null" THEN "None" ELSE address.v

DexUrl(token) == "https://dexscreener.com/solana/" \o AddressText(token.address)

\* the row INSERT OR REPLACE writes: the ten listed columns from the token,
\* the unlisted ones from the table's defaults
InsertedRow(token, h) ==
    [token_symbol   |-> token.token_symbol,
     token_name     |-> token.token_name,
     address        |-> token.address,
     age_hours      |-> token.age_hours,
     volume_usd     |-> token.volume_usd,
     maker_count    |-> token.maker_count,
     liquidity_usd  |-> token.liquidity_usd,
     market_cap_usd |-> token.market_cap_usd,
     dex_url        |-> DexUrl(token),
     priceChange1h  |-> token.priceChange1h,
     wom_score      |-> SqlNull,
     tweet_count    |-> SqlNull,
     created_at     |-> CurrentTimestamp(h)]

\* (mutant) a plain insert that leaves a conflicting row in place
InsertKeepingConflict(table, token, h) ==
    table \cup {InsertedRow(token, h)}

\* INSERT OR REPLACE on the primary key token_symbol: a conflicting row is
\* deleted and the new row inserted
InsertOrReplace(table, token, h) ==
    {row \in table : row.token_symbol # token.token_symbol} \cup {InsertedRow(token, h)}

RECURSIVE StoreLoop(_, _, _, _)
StoreLoop(table, toks, i, h) ==
    IF i > Len(toks) THEN table
    ELSE StoreLoop(InsertOrReplace(table, toks[i], h), toks, i + 1, h)

\* (mutant) an upsert that keeps the scores of a row it replaces
store_tokens_keeping_scores(table, toks, h) ==
    {IF \E old \in table : old.token_symbol = row.token_symbol
       THEN LET old == CHOOSE x \in table : x.token_symbol = row.token_symbol
            IN [row EXCEPT !.wom_score = old.wom_score, !.tweet_count = old.tweet_count]
       ELSE row : row \in StoreLoop(table, toks, 1, h)}

store_tokens(table, toks, h) == StoreLoop(table, toks, 1, h)

\* (mutant) created_at < ?  with ? formatted like CURRENT_TIMESTAMP
ExpiredStrict(row, h, m) == TextLess(row.created_at, TimestampText(h - RETENTION_HOURS))

\* DELETE FROM tokens WHERE created_at <= ?  with ? = now(utc) - 24 hours
Expired(row, h, m) == TextLessEq(row.created_at, AdaptDatetime(h - RETENTION_HOURS, m))

delete_old_tokens(table, h, m) == {row \in table : ~Expired(row, h, m)}

\* CREATE TABLE IF NOT EXISTS on a fresh database file
EmptyTable == {}

(***************************************************************************)
(* Inputs: raw labels and dataset items of the discovery feed.             *)
(***************************************************************************)
SeqsUpTo(S, n) == UNION {[1..k -> S] : k \in 0..n}

LabelAtoms == {"Foo", "BAR", "DLMM", "CLMM", "CPMM", " "}
Labels == {StrLabel(a) : a \in SeqsUpTo(LabelAtoms, MaxLabelLen)} \cup {NonStrLabel}

Item(name, lab, age, makers, addr) ==
    [tokenName     |-> name,
     tokenSymbol   |-> lab,
     age           |-> age,
     volumeUsd     |-> Val(150000),
     makerCount    |-> makers,
     liquidityUsd  |-> Val(50000),
     marketCapUsd  |-> Missing(0),
     priceChange1h |-> Val(0),
     address       |-> addr]

LabelFooBar == StrLabel(<<"Foo", " ", "BAR">>)
LabelFooDlmmBar == StrLabel(<<"Foo", " ", "DLMM", " ", "BAR">>)
LabelFoo == StrLabel(<<"Foo">>)
LabelFooXyz == StrLabel(<<"Foo", " ", "XYZ">>)

AddressOf(lab) ==
    IF lab = LabelFooBar THEN Val("A1")
    ELSE IF lab = LabelFooDlmmBar THEN Val("A2")
    ELSE IF lab = LabelFoo THEN Missing("")
    ELSE Null("")

GridLabels == {LabelFooBar, LabelFooDlmmBar, LabelFoo, NonStrLabel}
GridAges == {Missing(0), Null(0), Val(24), Val(25)}
GridMakers == {Missing(0), Null(0), Val(6999), Val(7000)}

GridItems ==
    {Item(Val("Bar"), lab, age, makers, AddressOf(lab)) :
        lab \in GridLabels, age \in GridAges, makers \in GridMakers}

\* the $XYZ candidates of the end-to-end scenario
Xyz8000 == Item(Val("Xyz"), LabelFooXyz, Val(10), Val(8000), Val("X1"))
Xyz9000 == Item(Val("Xyz"), LabelFooXyz, Val(5), Val(9000), Val("X2"))
Xyz9500 == Item(Val("Xyz"), LabelFooXyz, Val(5), Val(9500), Val("X1"))

RawItems == GridItems \cup {Xyz8000, Xyz9000, Xyz9500}

\* the datasets one discovery of a cycle can return
CycleItems ==
    {Xyz8000, Xyz9500,
     Item(Val("Bar"), LabelFooBar, Val(24), Val(7000), Val("A1")),
     Item(Val("Bar"), LabelFooBar, Val(24), Null(0), Val("A1"))}

MicroValues == {0, 500000}

(***************************************************************************)
(* The wom service: run_scheduled_job over the tokens table.               *)
(***************************************************************************)
\* a database file without tables
NoTable == [exists |-> FALSE, rows |-> {}]
NoDatabase == [tokens |-> NoTable, tweets |-> NoTable]

NotRun == [called |-> FALSE, exc |-> "none", val |-> <<>>]
NotCalled == [called |-> FALSE, exc |-> "none", val |-> ""]
Outcome(r) == [called |-> TRUE, exc |-> r.exc, val |-> r.val]

\* no database file is being reopened
IdleReopen ==
    /\ db = NoDatabase
    /\ opened = 0

IdlePure ==
    /\ dataset = <<>>
    /\ pairs = NotRun
    /\ label = NonStrLabel
    /\ formatted = NotCalled
    /\ posts = <<>>
    /\ iterated = <<>>
    /\ bullishness_scores = <<>>
    /\ data = <<>>

\* overall_sentiments = {}: a dict keeps its keys in insertion order
NoSentiments == <<>>

IdleCashtags ==
    /\ running = "none"
    /\ cashtags = <<>>
    /\ search_terms = <<>>
    /\ feeds = <<>>
    /\ overall_sentiments = NoSentiments

IdleOthers == IdleReopen /\ IdlePure /\ IdleCashtags

\* the clients that can have a GET /run-scheduled-job in flight
Requests == {"r1", "r2"}

\* the environment's SCHEDULE_KEY and the `key` query values a client sends
SCHEDULE_KEY == "k1"
Keys == {"k1", "k0"}

\* (mutant) the check is skipped when no key is configured
KeyAcceptedWhenUnset(key, expected) == expected.kind = "null" \/ Val(key) = expected

\* `key != expected_key` is false: a str equals only the same str, never None
KeyAccepted(key, expected) == Val(key) = expected

\* the (wom_score, tweet_count) an analysis of one token writes
ScoreOutcomes ==
    {[wom_score |-> Val(80), tweet_count |-> Val(2)]}

\* fetch_and_analyze(symbol, store=True): the write-back of the aggregate
update_score(table, symbol, sc) ==
    {IF row.token_symbol = symbol
       THEN [row EXCEPT !.wom_score = sc.wom_score, !.tweet_count = sc.tweet_count]
       ELSE row : row \in table}

Symbols(table) == {row.token_symbol : row \in table}

\* history: the symbols of the table whose row holds or has held a score
HeldScore(before, table) ==
    (before \cap Symbols(table)) \cup
    {row.token_symbol : row \in {x \in table : x.wom_score # SqlNull}}

NoSymbols == [s \in {} |-> 0]

IdleRequests ==
    /\ pc = [r \in Requests |-> "idle"]
    /\ filtered = [r \in Requests |-> <<>>]
    /\ results = [r \in Requests |-> <<>>]
    /\ polls = [r \in Requests |-> 0]
    /\ trace = [r \in Requests |-> <<>>]
    /\ outcome = [r \in Requests |-> "none"]
    /\ sentKey = [r \in Requests |-> ""]

Init ==
    /\ tokens = EmptyTable
    /\ expected_key \in {Val(SCHEDULE_KEY), Null(0)}
    /\ now = RETENTION_HOURS
    /\ micro = 0
    /\ IdleRequests
    /\ firstAdmit = NoSymbols
    /\ scoredOnce = {}
    /\ lastEvicted = {}
    /\ IdleOthers

\* time passes, also while a request is suspended in an await
Tick ==
    /\ now + TickHours <= MaxTime
    /\ now' = now + TickHours
    /\ micro' \in MicroValues
    /\ UNCHANGED <<tokens, pc, filtered, results, polls, trace, outcome, firstAdmit, scoredOnce>>
    /\ lastEvicted' = {}
    /\ UNCHANGED <<expected_key, sentKey, reopenVars, pairsVars, symbolVars, scoreVars, cashtagVars>>

\* the request ends: its locals are gone, the answer is on its way
Ended(r, how) ==
    /\ pc' = [pc EXCEPT ![r] = "idle"]
    /\ filtered' = [filtered EXCEPT ![r] = <<>>]
    /\ results' = [results EXCEPT ![r] = <<>>]
    /\ polls' = [polls EXCEPT ![r] = 0]
    /\ outcome' = [outcome EXCEPT ![r] = how]
    /\ trace' = [trace EXCEPT ![r] = <<>>]

\* the ways the discovery of a cycle fails: raise_for_status(), RuntimeError
DiscoveryFailures == {"http_error", "run_failed"}

\* `if key != expected_key: raise HTTPException(403)`
Forbidden(r) ==
    /\ pc[r] = "idle"
    /\ \E key \in Keys :
          /\ ~KeyAccepted(key, expected_key)
          /\ sentKey' = [sentKey EXCEPT ![r] = key]
    /\ outcome' = [outcome EXCEPT ![r] = "forbidden"]
    /\ trace' = [trace EXCEPT ![r] = <<>>]
    /\ UNCHANGED <<tokens, now, micro, pc, filtered, results, polls, firstAdmit, scoredOnce>>
    /\ lastEvicted' = {}
    /\ UNCHANGED <<expected_key, reopenVars, pairsVars, symbolVars, scoreVars, cashtagVars>>

\* run_scheduled_job up to its first await: the key is accepted,
\* delete_old_tokens() runs, get_filtered_pairs posts the actor run
RunScheduledJob(r) ==
    /\ pc[r] = "idle"
    /\ \E key \in Keys :
          /\ KeyAccepted(key, expected_key)
          /\ sentKey' = [sentKey EXCEPT ![r] = key]
    /\ tokens' = delete_old_tokens(tokens, now, micro)
    /\ lastEvicted' = Symbols(tokens) \ Symbols(tokens')
    /\ scoredOnce' = scoredOnce \cap Symbols(tokens')
    /\ firstAdmit' = [s \in Symbols(tokens') |-> firstAdmit[s]]
    /\ pc' = [pc EXCEPT ![r] = "submitting"]
    /\ filtered' = [filtered EXCEPT ![r] = <<>>]
    /\ results' = [results EXCEPT ![r] = <<>>]
    /\ polls' = [polls EXCEPT ![r] = 0]
    /\ trace' = [trace EXCEPT ![r] = <<"evict">>]
    /\ outcome' = [outcome EXCEPT ![r] = IF @ \in DiscoveryFailures THEN @ ELSE "none"]
    /\ UNCHANGED <<now, micro>>
    /\ UNCHANGED <<expected_key, reopenVars, pairsVars, symbolVars, scoreVars, cashtagVars>>

\* a step of get_filtered_pairs that touches neither the store nor the locals
Awaiting(r, to, n) ==
    /\ pc' = [pc EXCEPT ![r] = to]
    /\ polls' = [polls EXCEPT ![r] = n]
    /\ UNCHANGED <<tokens, now, micro, filtered, results, trace, outcome, firstAdmit, scoredOnce>>
    /\ lastEvicted' = {}
    /\ UNCHANGED <<expected_key, sentKey, reopenVars, pairsVars, symbolVars, scoreVars, cashtagVars>>

\* the POST answered 2xx: the first status request goes out
RunStarted(r) ==
    /\ pc[r] = "submitting"
    /\ Awaiting(r, "polling", polls[r])

\* the status is neither SUCCEEDED nor a failure: `await asyncio.sleep(5)`
PollPending(r) ==
    /\ pc[r] = "polling"
    /\ Awaiting(r, "sleeping", IF polls[r] < MaxPolls THEN polls[r] + 1 ELSE polls[r])

\* the sleep is over: `while True` sends the next status request
PollAgain(r) ==
    /\ pc[r] = "sleeping"
    /\ Awaiting(r, "polling", polls[r])

\* status == "SUCCEEDED": break, the dataset request goes out
PollSucceeded(r) ==
    /\ pc[r] = "polling"
    /\ Awaiting(r, "fetching", 0)

\* (mutant) the exception is caught nowhere and takes the process down
FailedUnhandled(r, how) ==
    /\ pc' = [q \in Requests |-> "down"]
    /\ filtered' = [q \in Requests |-> <<>>]
    /\ results' = [q \in Requests |-> <<>>]
    /\ polls' = [q \in Requests |-> 0]
    /\ trace' = [q \in Requests |-> <<>>]
    /\ outcome' = [outcome EXCEPT ![r] = how]
    /\ UNCHANGED <<tokens, now, micro, firstAdmit, scoredOnce>>
    /\ lastEvicted' = {}
    /\ UNCHANGED <<expected_key, sentKey, reopenVars, pairsVars, symbolVars, scoreVars, cashtagVars>>

\* `except Exception`: the request ends with an error answer, the store
\* stays as the completed steps left it
Failed(r, how) ==
    /\ Ended(r, how)
    /\ UNCHANGED <<tokens, now, micro, firstAdmit, scoredOnce>>
    /\ lastEvicted' = {}
    /\ UNCHANGED <<expected_key, sentKey, reopenVars, pairsVars, symbolVars, scoreVars, cashtagVars>>

\* raise_for_status() on the POST, a status request or the dataset request
HttpError(r) ==
    /\ pc[r] \in {"submitting", "polling", "fetching"}
    /\ Failed(r, "http_error")

\* status in FAILED, TIMED_OUT, ABORTED: RuntimeError
RunFailed(r) ==
    /\ pc[r] = "polling"
    /\ Failed(r, "run_failed")

\* (mutant) store_tokens called whatever the list holds
FetchStepsAlwaysStore(toks) == <<"discover", "filter", "store">>

\* the steps of fetch_tokens: get_filtered_pairs receives the dataset and
\* filters it, `if filtered_tokens: store_tokens(filtered_tokens)`
FetchSteps(toks) ==
    <<"discover", "filter">> \o (IF toks # <<>> THEN <<"store">> ELSE <<>>)

\* the batch fetch_tokens hands back once the dataset has arrived: the
\* item loop, then store_tokens if the list is not empty
FetchTokens(r) ==
    /\ pc[r] = "fetching"
    /\ \E items \in SeqsUpTo(CycleItems, MaxBatch) :
          LET got == get_filtered_pairs(items)
          IN IF got.exc # "none"
             THEN /\ Ended(r, "filter_failed")
                  /\ UNCHANGED <<tokens, firstAdmit, scoredOnce>>
             ELSE /\ filtered' = [filtered EXCEPT ![r] = got.val]
                  /\ tokens' = IF got.val # <<>>
                                 THEN store_tokens(tokens, got.val, now) ELSE tokens
                  /\ trace' = [trace EXCEPT ![r] = trace[r] \o FetchSteps(got.val)]
                  /\ scoredOnce' = scoredOnce \cap Symbols(tokens')
                  /\ firstAdmit' = [s \in Symbols(tokens') |->
                                      IF s \in Symbols(tokens) THEN firstAdmit[s] ELSE now]
                  /\ pc' = [pc EXCEPT ![r] = "scoring"]
                  /\ UNCHANGED <<results, polls, outcome>>
    /\ UNCHANGED <<now, micro>>
    /\ lastEvicted' = {}
    /\ UNCHANGED <<expected_key, sentKey, reopenVars, pairsVars, symbolVars, scoreVars, cashtagVars>>

\* (mutant) the loop over every row of the table
ScoringTargetsAllTracked(table, toks) ==
    LET RECURSIVE Listed(_)
        Listed(S) == IF S = {} THEN <<>>
                     ELSE LET s == CHOOSE x \in S : TRUE
                          IN <<[token_symbol |-> s]>> \o Listed(S \ {s})
    IN Listed(Symbols(table))

\* `for token in tokens`: the list fetch_tokens returned
ScoringTargets(table, toks) == toks

\* one iteration of the loop: fetch_and_analyze returned for the next token
AnalyzeToken(r) ==
    /\ pc[r] = "scoring"
    /\ Len(results[r]) < Len(ScoringTargets(tokens, filtered[r]))
    /\ LET token == ScoringTargets(tokens, filtered[r])[Len(results[r]) + 1]
       IN /\ \E sc \in ScoreOutcomes :
                tokens' = update_score(tokens, token.token_symbol, sc)
          /\ results' = [results EXCEPT ![r] = Append(results[r], token.token_symbol)]
    /\ trace' = [trace EXCEPT ![r] =
                   IF trace[r][Len(trace[r])] = "score" THEN trace[r]
                   ELSE Append(trace[r], "score")]
    /\ scoredOnce' = HeldScore(scoredOnce, tokens')
    /\ UNCHANGED <<now, micro, pc, filtered, polls, outcome, firstAdmit>>
    /\ lastEvicted' = {}
    /\ UNCHANGED <<expected_key, sentKey, reopenVars, pairsVars, symbolVars, scoreVars, cashtagVars>>

\* (mutant) the failure undoes the upserts of the cycle
AnalyzeFailedRollback(r) ==
    /\ pc[r] = "scoring"
    /\ Len(results[r]) < Len(ScoringTargets(tokens, filtered[r]))
    /\ Ended(r, "scoring_failed")
    /\ tokens' = {row \in tokens :
                    \A i \in 1..Len(filtered[r]) :
                       filtered[r][i].token_symbol # row.token_symbol}
    /\ scoredOnce' = scoredOnce \cap Symbols(tokens')
    /\ firstAdmit' = [s \in Symbols(tokens') |-> firstAdmit[s]]
    /\ lastEvicted' = {}
    /\ UNCHANGED <<now, micro>>
    /\ UNCHANGED <<expected_key, sentKey, reopenVars, pairsVars, symbolVars, scoreVars, cashtagVars>>

\* fetch_and_analyze raised for the next token: nothing in the loop catches
\* it, the except clause of run_scheduled_job answers 500
AnalyzeFailed(r) ==
    /\ pc[r] = "scoring"
    /\ Len(results[r]) < Len(ScoringTargets(tokens, filtered[r]))
    /\ Failed(r, "scoring_failed")

\* the loop is over: {"message": "Job completed", "processed_tokens": n}
JobCompleted(r) ==
    /\ pc[r] = "scoring"
    /\ Len(results[r]) = Len(ScoringTargets(tokens, filtered[r]))
    /\ Ended(r, "completed")
    /\ UNCHANGED <<tokens, now, micro, firstAdmit, scoredOnce>>
    /\ lastEvicted' = {}
    /\ UNCHANGED <<expected_key, sentKey, reopenVars, pairsVars, symbolVars, scoreVars, cashtagVars>>

\* the task of the request is cancelled while it is suspended in an await
\* (the server shuts down): CancelledError is not an Exception
Cancelled(r) ==
    /\ \/ pc[r] \in {"submitting", "polling", "sleeping", "fetching"}
       \/ pc[r] = "scoring" /\ Len(results[r]) < Len(ScoringTargets(tokens, filtered[r]))
    /\ Failed(r, "cancelled")

Cycle(r) ==
    \/ Forbidden(r)
    \/ RunScheduledJob(r)
    \/ RunStarted(r)
    \/ PollPending(r)
    \/ PollAgain(r)
    \/ PollSucceeded(r)
    \/ HttpError(r)
    \/ RunFailed(r)
    \/ FetchTokens(r)
    \/ AnalyzeToken(r)
    \/ AnalyzeFailed(r)
    \/ JobCompleted(r)
    \/ Cancelled(r)

\* one client: a request is sent only after the previous one was answered
Next == Tick \/ Cycle("r1")

Spec == Init /\ [][Next]_vars

\* the event loop resumes a suspended request whenever its await is over:
\* every HTTP call ends with an answer or an exception, every sleep elapses.
\* What the answers say is up to the feed.
SpecLive == Init /\ [][Next]_vars /\ WF_vars(Cycle("r1"))

\* any client may send its request while another client's is in flight:
\* nothing in the handler looks whether a cycle is running.  The requests
\* are observed within one reading of the clock.
InitConcurrent ==
    /\ tokens = EmptyTable
    /\ expected_key = Val(SCHEDULE_KEY)
    /\ now = MaxTime
    /\ micro = 0
    /\ IdleRequests
    /\ firstAdmit = NoSymbols
    /\ scoredOnce = {}
    /\ lastEvicted = {}
    /\ IdleOthers

NextConcurrent == \E r \in Requests : Cycle(r)

SpecConcurrent == InitConcurrent /\ [][NextConcurrent]_vars

(***************************************************************************)
(* Properties of the token store.                                          *)
(***************************************************************************)
ParseTimestamp(text) == (text[1] - 48) * 100 + (text[2] - 48) * 10 + (text[3] - 48)

\* the clock counts hours; micro is its fraction in millionths
FractionScale == 1000000

\* the tracked columns of a row / the values a candidate gives them
TrackedOfRow(row) ==
    <<row.token_name, row.address, row.age_hours, row.volume_usd, row.maker_count,
      row.liquidity_usd, row.market_cap_usd, row.dex_url, row.priceChange1h>>

TrackedOfToken(t) ==
    <<t.token_name, t.address, t.age_hours, t.volume_usd, t.maker_count,
      t.liquidity_usd, t.market_cap_usd, DexUrl(t), t.priceChange1h>>

RowOf(table, s) == CHOOSE row \in table : row.token_symbol = s

EvictionStep(r) == pc[r] = "idle" /\ pc'[r] = "submitting"
StoreStep(r) == pc[r] = "fetching" /\ pc'[r] = "scoring"

\* C1: an upsert of a symbol that is already in the table gives the row the
\* candidate's tracked fields and leaves the row's created_at as it was.
C1_UpsertKeepsCreatedAt ==
    [][\A r \in Requests : StoreStep(r) =>
         \A i \in 1..Len(filtered'[r]) :
            LET t == filtered'[r][i]
                s == t.token_symbol
            IN s \in Symbols(tokens) =>
                 /\ TrackedOfRow(RowOf(tokens', s)) = TrackedOfToken(t)
                 /\ RowOf(tokens', s).created_at = RowOf(tokens, s).created_at]_vars

\* C2: store_tokens is idempotent: a candidate whose row is already what an
\* earlier application of the same candidate wrote leaves that row, its
\* created_at included, and every other row unchanged.
C2_StoreTokensIdempotent ==
    [][\A r \in Requests : StoreStep(r) =>
         /\ \A i \in 1..Len(filtered'[r]) :
               LET t == filtered'[r][i]
                   s == t.token_symbol
               IN (/\ s \in Symbols(tokens)
                   /\ RowOf(tokens, s) = [InsertedRow(t, now) EXCEPT
                                      !.created_at = RowOf(tokens, s).created_at])
                  => RowOf(tokens, s) \in tokens'
         /\ \A row \in tokens :
               (\A i \in 1..Len(filtered'[r]) :
                   filtered'[r][i].token_symbol # row.token_symbol)
               => row \in tokens']_vars

\* C3: delete_old_tokens run at `now` keeps exactly the rows whose creation
\* timestamp is later than now - 24h, each unchanged, and removes the others.
C3_EvictsExactlyExpired ==
    [][\A r \in Requests : EvictionStep(r) =>
         tokens' = {row \in tokens :
                       ParseTimestamp(row.created_at) * FractionScale
                         > (now - 24) * FractionScale + micro}]_vars

\* C3 witness: an eviction has just removed an expired row and kept a
\* younger one.
C3_Witness ==
    /\ pc["r1"] = "submitting"
    /\ lastEvicted # {}
    /\ tokens # {}

\* C4: after an eviction step no row remains whose symbol was first
\* inserted more than 24 hours before, re-discovered in between or not.
C4_LifetimeBoundedFromFirstAdmission ==
    [][\A r \in Requests : EvictionStep(r) =>
         \A s \in Symbols(tokens') :
            ~(now * FractionScale + micro > (firstAdmit[s] + 24) * FractionScale)]_vars

\* C12: the tokens table never holds two rows with the same token_symbol.
C12_OneRowPerSymbol ==
    \A a, b \in tokens : a.token_symbol = b.token_symbol => a = b

\* C12 witness: a symbol already in the table has been stored again and the
\* later row is the one in the table.
C12_Witness ==
    \E row \in tokens :
        firstAdmit[row.token_symbol] < ParseTimestamp(row.created_at)

(***************************************************************************)
(* The crypto_lens service: the interval job scheduled_fetch and the       *)
(* /trigger-fetch request over its tokens table.                           *)
(***************************************************************************)
LensTasks == {"scheduled_fetch", "trigger_fetch"}

\* delete_old_tokens of crypto_lens: the connection is opened, then
\* `datetime.utc()` raises AttributeError (the class has no such attribute)
\* before the DELETE ... WHERE age_hours >= 24 is executed
lens_delete_old_tokens(table) == Raised("AttributeError", table)

RECURSIVE ScoreLoop(_, _, _)
ScoreLoop(table, toks, sc) ==
    IF toks = <<>> THEN table
    ELSE ScoreLoop(update_score(table, Head(toks).token_symbol, sc), Tail(toks), sc)

InitLens ==
    /\ tokens = EmptyTable
    /\ now = RETENTION_HOURS
    /\ micro = 0
    /\ pc = [t \in LensTasks |-> "idle"]
    /\ filtered = [t \in LensTasks |-> <<>>]
    /\ results = [t \in LensTasks |-> <<>>]
    /\ polls = [t \in LensTasks |-> 0]
    /\ trace = [t \in LensTasks |-> <<>>]
    /\ outcome = [t \in LensTasks |-> "none"]
    /\ sentKey = [t \in LensTasks |-> ""]
    /\ expected_key = Null(0)
    /\ firstAdmit = NoSymbols
    /\ scoredOnce = {}
    /\ lastEvicted = {}
    /\ IdleOthers

\* the interval trigger fires, or GET /trigger-fetch arrives: the task runs
\* up to `await fetch_tokens()`
LensStart(t) ==
    /\ pc[t] = "idle"
    /\ pc' = [pc EXCEPT ![t] = "fetching"]
    /\ filtered' = [filtered EXCEPT ![t] = <<>>]
    /\ trace' = [trace EXCEPT ![t] = <<>>]
    /\ outcome' = [outcome EXCEPT ![t] = "none"]
    /\ UNCHANGED <<tokens, now, micro, results, polls, firstAdmit, scoredOnce, lastEvicted>>
    /\ UNCHANGED <<expected_key, sentKey, reopenVars, pairsVars, symbolVars, scoreVars, cashtagVars>>

LensEnded(t, how) ==
    /\ pc' = [pc EXCEPT ![t] = "idle"]
    /\ outcome' = [outcome EXCEPT ![t] = how]

\* fetch_tokens raises: nothing in scheduled_fetch or trigger_fetch catches it
LensFetchFailed(t) ==
    /\ pc[t] = "fetching"
    /\ LensEnded(t, "fetch_failed")
    /\ UNCHANGED <<tokens, now, micro, filtered, results, polls, trace, firstAdmit, scoredOnce, lastEvicted>>
    /\ UNCHANGED <<expected_key, sentKey, reopenVars, pairsVars, symbolVars, scoreVars, cashtagVars>>

\* fetch_tokens returns the batch it stored; scheduled_fetch goes on with
\* delete_old_tokens(), trigger_fetch with `await fetch_and_analyze(tokens)`
LensFetched(t) ==
    /\ pc[t] = "fetching"
    /\ \E items \in SeqsUpTo(CycleItems, MaxBatch) :
          LET got == get_filtered_pairs(items)
              stored == IF got.val # <<>> THEN store_tokens(tokens, got.val, now)
                        ELSE tokens
              deleted == lens_delete_old_tokens(stored)
          IN /\ got.exc = "none"
             /\ filtered' = [filtered EXCEPT ![t] = got.val]
             /\ IF t = "trigger_fetch"
                THEN /\ tokens' = stored
                     /\ trace' = [trace EXCEPT ![t] = FetchSteps(got.val)]
                     /\ pc' = [pc EXCEPT ![t] = "scoring"]
                     /\ UNCHANGED outcome
                ELSE IF deleted.exc # "none"
                THEN /\ tokens' = stored
                     /\ trace' = [trace EXCEPT ![t] = FetchSteps(got.val)]
                     /\ LensEnded(t, deleted.exc)
                ELSE /\ tokens' = deleted.val
                     /\ trace' = [trace EXCEPT ![t] = FetchSteps(got.val) \o <<"evict">>]
                     /\ pc' = [pc EXCEPT ![t] = "scoring"]
                     /\ UNCHANGED outcome
    /\ scoredOnce' = scoredOnce \cap Symbols(tokens')
    /\ firstAdmit' = [s \in Symbols(tokens') |->
                        IF s \in Symbols(tokens) THEN firstAdmit[s] ELSE now]
    /\ UNCHANGED <<now, micro, results, polls, lastEvicted>>
    /\ UNCHANGED <<expected_key, sentKey, reopenVars, pairsVars, symbolVars, scoreVars, cashtagVars>>

\* fetch_and_analyze(tokens) returned: the scores of the batch are written
LensAnalyzed(t) ==
    /\ pc[t] = "scoring"
    /\ \E sc \in ScoreOutcomes : tokens' = ScoreLoop(tokens, filtered[t], sc)
    /\ trace' = [trace EXCEPT ![t] = Append(trace[t], "score")]
    /\ LensEnded(t, "completed")
    /\ scoredOnce' = HeldScore(scoredOnce, tokens')
    /\ UNCHANGED <<now, micro, filtered, results, polls, firstAdmit, lastEvicted>>
    /\ UNCHANGED <<expected_key, sentKey, reopenVars, pairsVars, symbolVars, scoreVars, cashtagVars>>

NextLens ==
    \E t \in LensTasks :
        LensStart(t) \/ LensFetchFailed(t) \/ LensFetched(t) \/ LensAnalyzed(t)

SpecLens == InitLens /\ [][NextLens]_vars

(***************************************************************************)
(* Properties of the cycle.                                                *)
(***************************************************************************)
Range(seq) == {seq[i] : i \in 1..Len(seq)}

BatchSymbols(toks) == [i \in 1..Len(toks) |-> toks[i].token_symbol]

CompletionStep(r) == pc[r] = "scoring" /\ pc'[r] = "idle" /\ outcome'[r] = "completed"

C14_ScoringFailureIsolated ==
    [][\A r \in Requests :
         (pc[r] = "scoring" /\ pc'[r] = "idle" /\ outcome'[r] # "cancelled")
         => outcome'[r] = "completed"]_vars

ScoreStep(r) == pc[r] = "scoring" /\ Len(results'[r]) > Len(results[r])

\* C15: no request performs its eviction, its upsert or a score update while
\* the cycle of another request is between its start and its end.
C15_CyclesNeverOverlap ==
    [][\A r \in Requests :
         (EvictionStep(r) \/ StoreStep(r) \/ ScoreStep(r))
         => \A q \in Requests \ {r} : pc[q] = "idle"]_vars

\* the steps of seq follow one another as they do in order
InOrder(seq, order) ==
    \A i, j \in 1..Len(seq) :
        i < j => \E a, b \in 1..Len(order) :
                    a < b /\ order[a] = seq[i] /\ order[b] = seq[j]

C17_CycleEventuallyEnds ==
    (pc["r1"] # "idle") ~> (pc["r1"] = "idle")

\* the cycle of r is over (its trace is closed) with a discovery failure
DiscoveryFailureStep(r) ==
    /\ pc[r] \in {"submitting", "polling", "fetching"}
    /\ trace[r] # <<>> /\ trace'[r] = <<>>
    /\ outcome'[r] \in DiscoveryFailures

\* C18: a cycle whose discovery fails (HTTP error on the submission, a status
\* request or the dataset request, or a run that FAILED, TIMED_OUT or was
\* ABORTED) ends there: it has made and makes no upsert and no score update,
\* the table is left as it is, and the client can send the next request.
C18_DiscoveryFailureEndsCycle ==
    [][\A r \in Requests : DiscoveryFailureStep(r) =>
         /\ "store" \notin Range(trace[r]) /\ "score" \notin Range(trace[r])
         /\ results[r] = <<>>
         /\ tokens' = tokens
         /\ pc'[r] = "idle"
         /\ \A q \in Requests \ {r} : pc'[q] = pc[q]]_vars

\* C18 witness: the cycle after one that failed in discovery has stored and
\* scored its whole batch.
C18_Witness ==
    /\ outcome["r1"] \in DiscoveryFailures
    /\ pc["r1"] = "scoring"
    /\ filtered["r1"] # <<>>
    /\ results["r1"] = BatchSymbols(filtered["r1"])

EndsWithoutCompleting(r) ==
    pc[r] # "idle" /\ pc'[r] = "idle" /\ outcome'[r] # "completed"

\* C20: a step that ends a cycle in failure or cancellation leaves the table
\* exactly as the completed steps of the cycle committed it: nothing evicted
\* comes back, nothing upserted or scored is undone.
C20_NoRollback ==
    [][\A r \in Requests : EndsWithoutCompleting(r) => tokens' = tokens]_vars

\* C20 witness: scoring has failed in a cycle after store_tokens committed;
\* the row upserted in that cycle, not yet scored, is in the table.
C20_Witness ==
    /\ pc["r1"] = "idle"
    /\ outcome["r1"] = "scoring_failed"
    /\ \E row \in tokens :
          /\ row.wom_score = SqlNull
          /\ ParseTimestamp(row.created_at) = now

\* C19: every cycle that starts performs the eviction step before it ends,
\* whether its discovery succeeds, returns an empty batch or fails.
C19_EveryCycleEvicts ==
    [][\A t \in DOMAIN pc :
         (pc[t] # "idle" /\ pc'[t] = "idle")
         => "evict" \in Range(trace[t]) \cup Range(trace'[t])]_vars

\* C21: delete_old_tokens runs to completion on every store state, the empty
\* one included: no cycle ends with an exception raised by its eviction.
C21_DeleteOldTokensCompletes ==
    \A t \in DOMAIN outcome : outcome[t] # "AttributeError"

\* a request of client r has arrived and passed or failed the key check
Arrival(r) ==
    /\ pc[r] = "idle"
    /\ pc'[r] # pc[r] \/ outcome'[r] # outcome[r] \/ sentKey'[r] # sentKey[r]

\* C25: a request whose key differs from the configured SCHEDULE_KEY (every
\* request when none is configured) is answered Forbidden and starts no
\* cycle: no eviction, discovery, upsert or scoring, the table is unchanged;
\* and a cycle is in flight only for a request that sent the configured key.
C25_WrongKeyStartsNothing ==
    [][\A r \in Requests :
         /\ (Arrival(r) /\ Val(sentKey'[r]) # expected_key) =>
               /\ outcome'[r] = "forbidden"
               /\ pc' = pc
               /\ tokens' = tokens
               /\ trace'[r] = <<>> /\ filtered'[r] = <<>> /\ results'[r] = <<>>
         /\ pc'[r] # "idle" => Val(sentKey'[r]) = expected_key
         /\ expected_key = Null(0) => tokens' = EmptyTable]_vars

\* C25 witness: a wrong key was rejected while the table held rows.
C25_Witness ==
    /\ outcome["r1"] = "forbidden"
    /\ sentKey["r1"] # SCHEDULE_KEY
    /\ expected_key = Val(SCHEDULE_KEY)
    /\ tokens # {}

\* C25 witness: with no key configured the usual key was rejected.
C25_WitnessUnset ==
    /\ expected_key = Null(0)
    /\ outcome["r1"] = "forbidden"
    /\ sentKey["r1"] = SCHEDULE_KEY

IdleStore ==
    /\ tokens = EmptyTable
    /\ expected_key = Val(SCHEDULE_KEY)
    /\ now = RETENTION_HOURS
    /\ micro = 0
    /\ IdleRequests
    /\ firstAdmit = NoSymbols
    /\ scoredOnce = {}
    /\ lastEvicted = {}

\* C24: the upsert of a cycle leaves every token of its batch without
\* wom_score and tweet_count, whatever score the row held before; the scoring
\* loop then fills them in batch order, and when the cycle ends in a scoring
\* failure the tokens of the batch it had not reached stay without a score.
C24_UpsertResetsScore ==
    [][\A r \in Requests :
         /\ StoreStep(r) =>
              \A i \in 1..Len(filtered'[r]) :
                 LET row == RowOf(tokens', filtered'[r][i].token_symbol)
                 IN row.wom_score = SqlNull /\ row.tweet_count = SqlNull
         /\ (pc[r] = "scoring" /\ pc'[r] = "idle" /\ outcome'[r] = "scoring_failed") =>
              \A i \in (Len(results[r]) + 1)..Len(filtered[r]) :
                 LET row == RowOf(tokens', filtered[r][i].token_symbol)
                 IN row.wom_score = SqlNull /\ row.tweet_count = SqlNull]_vars

\* C24 witness: a token that held a score was upserted again, the scoring of
\* that cycle failed, and the table shows the token without a score.
C24_Witness ==
    /\ pc["r1"] = "idle"
    /\ outcome["r1"] = "scoring_failed"
    /\ \E row \in tokens :
          /\ row.token_symbol \in scoredOnce
          /\ row.wom_score = SqlNull
          /\ row.tweet_count = SqlNull

\* C24 witness: between the upsert and the score update a token that held a
\* score is in the table without one.
C24_WitnessBetween ==
    /\ pc["r1"] = "scoring"
    /\ results["r1"] = <<>>
    /\ \E row \in tokens :
          /\ row.token_symbol \in scoredOnce
          /\ row.wom_score = SqlNull

(***************************************************************************)
(* init_db of the wom service applied to a database file.                  *)
(***************************************************************************)
\* (mutant) the table is dropped and created anew
DropAndCreateTable(table) == [exists |-> TRUE, rows |-> {}]

\* CREATE TABLE IF NOT EXISTS
CreateTableIfNotExists(table) ==
    IF table.exists THEN table ELSE [exists |-> TRUE, rows |-> {}]

\* the two statements of init_db, committed together
init_db(d) ==
    [tweets |-> CreateTableIfNotExists(d.tweets),
     tokens |-> CreateTableIfNotExists(d.tokens)]

\* rows a database file can hold when it is reopened
StoredTokens ==
    LET got == get_filtered_pairs(
                  <<Xyz8000, Item(Val("Bar"), LabelFooBar, Val(24), Val(7000), Val("A1"))>>).val
        table == store_tokens(EmptyTable, got, RETENTION_HOURS)
    IN table \cup update_score(table, "$XYZ", [wom_score |-> Val(80), tweet_count |-> Val(2)])

StoredTweets ==
    {[id |-> i, token |-> "$XYZ", followers_count |-> 150, wom_score |-> Val(80)] :
        i \in {"t1", "t2", "t3"}}

\* a tokens table: missing, or holding rows with distinct primary keys
TokenTables ==
    {NoTable} \cup
    {[exists |-> TRUE, rows |-> S] :
        S \in {T \in SUBSET StoredTokens :
                  \A a, b \in T : a.token_symbol = b.token_symbol => a = b}}

\* a tweets table: missing, or holding rows with distinct primary keys
TweetTables ==
    {NoTable} \cup
    {[exists |-> TRUE, rows |-> S] :
        S \in {T \in SUBSET StoredTweets : \A a, b \in T : a.id = b.id => a = b}}

InitReopen ==
    /\ IdleStore
    /\ IdlePure
    /\ IdleCashtags
    /\ db \in [tokens : TokenTables, tweets : TweetTables]
    /\ opened = 0

\* the service starts: lifespan calls init_db()
InitDb ==
    /\ opened < MaxReopens
    /\ db' = init_db(db)
    /\ opened' = opened + 1
    /\ UNCHANGED <<storeVars, pairsVars, symbolVars, scoreVars, cashtagVars>>

NextReopen == InitDb

SpecReopen == InitReopen /\ [][NextReopen]_vars

\* C22: init_db leaves every row of an existing tokens or tweets table as it
\* is, and a second init_db leaves the database as the first one left it.
C22_ReopenLosesNothing ==
    [][opened' = opened + 1 =>
         /\ db.tokens.exists => db'.tokens = db.tokens
         /\ db.tweets.exists => db'.tweets = db.tweets
         /\ db'.tokens.exists /\ db'.tweets.exists
         /\ opened >= 1 => db' = db]_vars

\* C22 witness: a file holding token rows and tweet rows has been opened
\* twice.
C22_Witness ==
    /\ opened = 2
    /\ db.tokens.rows # {}
    /\ db.tweets.rows # {}

(***************************************************************************)
(* get_filtered_pairs applied to one dataset.                              *)
(***************************************************************************)

InitPairs ==
    /\ IdleStore
    /\ IdleReopen
    /\ IdleCashtags
    /\ dataset \in SeqsUpTo(RawItems, MaxBatch)
    /\ pairs = NotRun
    /\ label = NonStrLabel
    /\ formatted = NotCalled
    /\ posts = <<>>
    /\ iterated = <<>>
    /\ bullishness_scores = <<>>
    /\ data = <<>>

GetFilteredPairs ==
    /\ ~pairs.called
    /\ pairs' = Outcome(get_filtered_pairs(dataset))
    /\ UNCHANGED <<dataset, storeVars, reopenVars, symbolVars, scoreVars, cashtagVars>>

NextPairs == GetFilteredPairs

SpecPairs == InitPairs /\ [][NextPairs]_vars

PairsReturned == pairs.called /\ pairs.exc = "none"

\* what the discovery feed's item says, read as the claims read it
SymbolOfItem(item) == extract_and_format_symbol(item.tokenSymbol).val

AdmittedItem(item) ==
    /\ item.age.kind = "val"
    /\ item.age.v <= 24
    /\ \/ item.makerCount.kind = "val" /\ item.makerCount.v >= 7000
       \/ item.makerCount.kind = "missing" /\ 0 >= 7000

\* C5: the list get_filtered_pairs returns has no two entries with the same
\* token_symbol.
C5_UniqueSymbols ==
    PairsReturned =>
        \A i, j \in 1..Len(pairs.val) :
            pairs.val[i].token_symbol = pairs.val[j].token_symbol => i = j

\* C5 witness: two admitted items with malformed labels were collapsed into
\* one $Unknown entry.
C5_Witness ==
    /\ PairsReturned
    /\ Len(dataset) = 2
    /\ AdmittedItem(dataset[1]) /\ AdmittedItem(dataset[2])
    /\ dataset[1].tokenSymbol = LabelFoo
    /\ dataset[2].tokenSymbol = NonStrLabel
    /\ Len(pairs.val) = 1
    /\ pairs.val[1].token_symbol = UnknownSymbol

\* the positions of the dataset whose item is the first admitted one of its
\* symbol
FirstSeen(items) ==
    {i \in 1..Len(items) :
        /\ AdmittedItem(items[i])
        /\ \A j \in 1..(i - 1) :
              ~(AdmittedItem(items[j]) /\ SymbolOfItem(items[j]) = SymbolOfItem(items[i]))}

\* C6: the returned list is the list of first-seen admitted items, in
\* dataset order: entry k comes from the k-th first-seen position.
C6_FirstSeenWinsInOrder ==
    PairsReturned =>
        LET keep == FirstSeen(dataset)
        IN /\ Len(pairs.val) = Cardinality(keep)
           /\ \A k \in 1..Len(pairs.val) :
                 \E i \in keep :
                    /\ Cardinality({j \in keep : j < i}) = k - 1
                    /\ pairs.val[k] = TokenOf(dataset[i], SymbolOfItem(dataset[i]))

\* C6 witness: two admitted $XYZ items, maker_count 8000 then 9000; the 8000
\* one is kept.
C6_Witness ==
    /\ PairsReturned
    /\ dataset = <<Xyz8000, Xyz9000>>
    /\ Len(pairs.val) = 1
    /\ pairs.val[1].maker_count = Val(8000)

\* C7: a symbol is returned exactly when some item of that symbol has a
\* non-null age <= 24 and a maker count >= 7000 (missing counts as 0).
C7_AdmittedIff ==
    PairsReturned =>
        {pairs.val[k].token_symbol : k \in 1..Len(pairs.val)}
          = {SymbolOfItem(dataset[i]) : i \in {j \in 1..Len(dataset) : AdmittedItem(dataset[j])}}

\* C7 witness: age exactly 24 with maker_count exactly 7000 was admitted next
\* to a rejected item without age.
C7_Witness ==
    /\ PairsReturned
    /\ Len(dataset) = 2
    /\ dataset[1].age = Null(0) /\ dataset[1].makerCount = Val(7000)
    /\ dataset[2].age = Val(24) /\ dataset[2].makerCount = Val(7000)
    /\ Len(pairs.val) = 1
    /\ pairs.val[1].age_hours = Val(24)

(***************************************************************************)
(* extract_and_format_symbol applied to one raw label.                     *)
(***************************************************************************)
InitSymbol ==
    /\ IdleStore
    /\ IdleReopen
    /\ IdleCashtags
    /\ dataset = <<>>
    /\ pairs = NotRun
    /\ label \in Labels
    /\ formatted = NotCalled
    /\ posts = <<>>
    /\ iterated = <<>>
    /\ bullishness_scores = <<>>
    /\ data = <<>>

ExtractAndFormatSymbol ==
    /\ ~formatted.called
    /\ formatted' = Outcome(extract_and_format_symbol(label))
    /\ UNCHANGED <<label, storeVars, reopenVars, pairsVars, scoreVars, cashtagVars>>

NextSymbol == ExtractAndFormatSymbol

SpecSymbol == InitSymbol /\ [][NextSymbol]_vars

\* C8: extract_and_format_symbol never raises; with t1..tn the whitespace
\* tokens of the label it returns "$"+t3 when t2 is a pool-type marker and
\* n >= 3, "$"+t2 when n >= 2 and t2 is no marker, and "$Unknown" otherwise.
C8_SymbolNormalizer ==
    formatted.called =>
        /\ formatted.exc = "none"
        /\ LET t == IF label.isStr THEN Split(label.atoms) ELSE <<>>
               n == Len(t)
           IN formatted.val =
                 IF label.isStr /\ n >= 3 /\ Join(t[2]) \in {"DLMM", "CLMM", "CPMM"}
                 THEN "$" \o Join(t[3])
                 ELSE IF label.isStr /\ n >= 2 /\ Join(t[2]) \notin {"DLMM", "CLMM", "CPMM"}
                 THEN "$" \o Join(t[2])
                 ELSE "$Unknown"

\* C8 witness: "Foo DLMM BAR" gave "$BAR".
C8_Witness ==
    /\ formatted.called
    /\ label = LabelFooDlmmBar
    /\ formatted.val = "$BAR"

(***************************************************************************)
(* Sentiment scorer and score aggregator: twitter_analysis.py.             *)
(* Probabilities are counted in millionths, FinBERT percentages and        *)
(* bullishness values in hundredths.                                       *)
(***************************************************************************)
ProbScale == 1000000

Num(x) == [kind |-> "num", v |-> x]
NaN == [kind |-> "nan", v |-> 0]
PyNone == [kind |-> "none", v |-> 0]

\* round(num / den) to an integer.  A quotient exactly half way between two
\* integers in decimal is not half way in binary floating point and lands on
\* either side.
RoundNearest(num, den) ==
    LET q == (2 * num + den) \div (2 * den)
    IN IF (2 * num + den) % (2 * den) = 0 THEN {q - 1, q} ELSE {q}

\* calculate_bullishness on the classifier's output <<bullish, neutral, bearish>>:
\* the two percentages rounded to two places, then their ratio rounded to two
\* places; numpy's 0.0 / 0.0 is nan
calculate_bullishness(probs) ==
    UNION {
        UNION {
            IF bullish_prob + bearish_prob = 0 THEN {NaN}
            ELSE {Num(x) : x \in RoundNearest(100 * bullish_prob, bullish_prob + bearish_prob)}
            : bearish_prob \in RoundNearest(probs[3], ProbScale \div 10000)}
        : bullish_prob \in RoundNearest(probs[1], ProbScale \div 10000)}

RECURSIVE SumScores(_)
SumScores(scores) ==
    IF scores = <<>> THEN 0 ELSE Head(scores).v + SumScores(Tail(scores))

HasNaN(scores) == \E i \in 1..Len(scores) : scores[i].kind = "nan"

\* (mutant) the mean truncated, 0 for no scores
AverageBullishnessTruncated(scores) ==
    IF scores = <<>> THEN {Num(0)}
    ELSE IF HasNaN(scores) THEN {NaN}
    ELSE {Num(SumScores(scores) \div Len(scores))}

\* `if bullishness_scores: round(sum / len, 2) else None`
AverageBullishness(scores) ==
    IF scores = <<>> THEN {PyNone}
    ELSE IF HasNaN(scores) THEN {NaN}
    ELSE {Num(x) : x \in RoundNearest(SumScores(scores), Len(scores))}

MIN_FOLLOWERS == 150

Post(relevant, followers, probs) ==
    [relevant |-> relevant, userFollowersCount |-> followers, probs |-> probs]

Classified(bullish, bearish) == <<bullish, ProbScale - bullish - bearish, bearish>>

ClassifierOutputs ==
    {Classified(800000, 200000), Classified(600000, 400000), Classified(400000, 600000),
     Classified(610000, 390000), Classified(900000, 100000), Classified(700000, 300000),
     Classified(20, 20)}

PostItems ==
    {Post(TRUE, Val(150), c) : c \in ClassifierOutputs}
    \cup {Post(FALSE, Val(150), Classified(800000, 200000)),
          Post(TRUE, Val(149), Classified(800000, 200000)),
          Post(TRUE, Missing(0), Classified(800000, 200000))}

InitScore ==
    /\ IdleStore
    /\ IdleReopen
    /\ IdleCashtags
    /\ dataset = <<>>
    /\ pairs = NotRun
    /\ label = NonStrLabel
    /\ formatted = NotCalled
    /\ posts \in SeqsUpTo(PostItems, MaxPosts)
    /\ iterated = <<>>
    /\ bullishness_scores = <<>>
    /\ data = <<>>

\* (mutant) the follower test as `<= 150`
PostQualifiesAbove(item) ==
    /\ item.relevant
    /\ ~(ItemGet(item.userFollowersCount, Val(0)).v <= 150)

\* the two `continue` tests of the loop body: is_relevant_tweet's verdict
\* and `user_followers_count < 150`
PostQualifies(item) ==
    LET user_followers_count == ItemGet(item.userFollowersCount, Val(0))
    IN /\ item.relevant
       /\ ~(user_followers_count.v < MIN_FOLLOWERS)

\* one iteration of `for item in ...iterate_items()`
IteratePost ==
    /\ posts # <<>>
    /\ data = <<>>
    /\ LET item == Head(posts)
       IN IF ~PostQualifies(item)
          THEN bullishness_scores' = bullishness_scores
          ELSE \E score \in calculate_bullishness(item.probs) :
                  bullishness_scores' = Append(bullishness_scores, score)
    /\ posts' = Tail(posts)
    /\ iterated' = Append(iterated, Head(posts))
    /\ UNCHANGED <<data, storeVars, reopenVars, pairsVars, symbolVars, cashtagVars>>

\* after the loop: one row appended to `data`
AppendAverage ==
    /\ posts = <<>>
    /\ data = <<>>
    /\ \E avg_bullishness \in AverageBullishness(bullishness_scores) :
          data' = <<[Cashtag |-> "$XYZ", Bullishness |-> avg_bullishness]>>
    /\ UNCHANGED <<posts, iterated, bullishness_scores, storeVars, reopenVars, pairsVars, symbolVars,
                   cashtagVars>>

NextScore == IteratePost \/ AppendAverage

SpecScore == InitScore /\ [][NextScore]_vars

AllNumbers(scores) == \A i \in 1..Len(scores) : scores[i].kind = "num"

Abs(x) == IF x < 0 THEN -x ELSE x

\* C9: the aggregate of a non-empty sequence of bullishness values is their
\* arithmetic mean rounded to two places (within half a hundredth of the
\* mean); the aggregate of an empty sequence is None, never a number.
C9_MeanOrNoSignal ==
    data # <<>> =>
        LET b == data[1].Bullishness
            n == Len(bullishness_scores)
        IN /\ n = 0 => b = PyNone
           /\ (n > 0 /\ AllNumbers(bullishness_scores)) =>
                 /\ b.kind = "num"
                 /\ 2 * Abs(SumScores(bullishness_scores) - n * b.v) <= n

\* C9 witness: [0.8, 0.6, 0.4] gave 0.60.
C9_Witness ==
    /\ data # <<>>
    /\ bullishness_scores = <<Num(80), Num(60), Num(40)>>
    /\ data[1].Bullishness = Num(60)

\* C9 witness: no qualifying post gave None.
C9_WitnessEmpty ==
    /\ data # <<>>
    /\ bullishness_scores = <<>>
    /\ data[1].Bullishness = PyNone

\* C10: every value calculate_bullishness returns is a number in [0, 1], and
\* every aggregated score is a number in [0, 1] or no-signal.
C10_BullishnessInUnitInterval ==
    /\ \A i \in 1..Len(bullishness_scores) :
          /\ bullishness_scores[i].kind = "num"
          /\ bullishness_scores[i].v \in 0..100
    /\ data # <<>> =>
          \/ data[1].Bullishness = PyNone
          \/ /\ data[1].Bullishness.kind = "num"
             /\ data[1].Bullishness.v \in 0..100

\* the posts the claim lets contribute: relevant, follower count >= 150
\* (a missing count is 0)
Contributing(seq) ==
    SelectSeq(seq, LAMBDA item :
        /\ item.relevant
        /\ item.userFollowersCount.kind = "val"
        /\ item.userFollowersCount.v >= 150)

\* C11: the scores collected are, in order, those of exactly the posts that
\* pass the relevance check and have at least 150 followers; the other posts
\* are skipped and the iteration goes on; the aggregate is the mean of the collected scores and the
\* post count is their number.
C11_OnlyQualifyingPostsContribute ==
    LET c == Contributing(iterated)
    IN /\ Len(bullishness_scores) = Len(c)
       /\ \A k \in 1..Len(c) : bullishness_scores[k] \in calculate_bullishness(c[k].probs)
       /\ (data # <<>> /\ Len(c) > 0 /\ AllNumbers(bullishness_scores)) =>
             /\ data[1].Bullishness.kind = "num"
             /\ 2 * Abs(SumScores(bullishness_scores) - Len(c) * data[1].Bullishness.v)
                  <= Len(c)

\* C11 witness: three posts, one below the follower threshold, two
\* qualifying with 0.9 and 0.7, gave 0.80 from 2 posts.
C11_Witness ==
    /\ data # <<>>
    /\ Len(iterated) = 3
    /\ \E i \in 1..3 : iterated[i].relevant /\ iterated[i].userFollowersCount = Val(149)
    /\ bullishness_scores = <<Num(90), Num(70)>>
    /\ data[1].Bullishness = Num(80)

(***************************************************************************)
(* analyze_cashtags over a list of cashtags: twitter_analysis.py (FinBERT, *)
(* rows of a DataFrame) and twitter_sentiment.py (TextBlob, a dict of      *)
(* labels).  A cashtag is a sequence of characters.                        *)
(***************************************************************************)
Str(x) == [kind |-> "str", v |-> x]

\* (mutant) twitter_analysis with the threshold of twitter_sentiment
analysis_search_term_over7(cashtag) ==
    IF Len(cashtag) > 7 THEN Tail(cashtag) ELSE cashtag

\* twitter_analysis.py: `cashtag[1:] if len(cashtag) > 6 else cashtag`
analysis_search_term(cashtag) ==
    IF Len(cashtag) > 6 THEN Tail(cashtag) ELSE cashtag

\* twitter_sentiment.py: `cashtag[1:] if len(cashtag) > 7 else cashtag`
sentiment_search_term(cashtag) ==
    IF Len(cashtag) > 7 THEN Tail(cashtag) ELSE cashtag

\* the loop over the dataset items of one cashtag in twitter_analysis.py;
\* `None < 150` raises TypeError
RECURSIVE CollectScores(_, _)
CollectScores(items, scores) ==
    IF items = <<>> THEN {Returned(scores)}
    ELSE LET item == Head(items)
             user_followers_count == ItemGet(item.userFollowersCount, Val(0))
         IN IF ~item.relevant THEN CollectScores(Tail(items), scores)
            ELSE IF user_followers_count.kind = "null" THEN {Raised("TypeError", <<>>)}
            ELSE IF ~PostQualifies(item) THEN CollectScores(Tail(items), scores)
            ELSE UNION {CollectScores(Tail(items), Append(scores, score)) :
                           score \in calculate_bullishness(item.probs)}

\* (mutant) an exception recorded like a cashtag without qualifying posts
AnalysisRowsErrorAsNone(cashtag, feed) ==
    IF feed.exc # "none" THEN {[Cashtag |-> cashtag, Bullishness |-> PyNone]}
    ELSE UNION {
        IF collected.exc # "none" THEN {[Cashtag |-> cashtag, Bullishness |-> PyNone]}
        ELSE {[Cashtag |-> cashtag, Bullishness |-> avg_bullishness] :
                 avg_bullishness \in AverageBullishness(collected.val)}
        : collected \in CollectScores(feed.val, <<>>)}

\* the body of `for cashtag in cashtags` in twitter_analysis.py: the row the
\* try block or its `except Exception` appends
AnalysisRows(cashtag, feed) ==
    IF feed.exc # "none" THEN {[Cashtag |-> cashtag, Bullishness |-> Str("Error")]}
    ELSE UNION {
        IF collected.exc # "none" THEN {[Cashtag |-> cashtag, Bullishness |-> Str("Error")]}
        ELSE {[Cashtag |-> cashtag, Bullishness |-> avg_bullishness] :
                 avg_bullishness \in AverageBullishness(collected.val)}
        : collected \in CollectScores(feed.val, <<>>)}

\* the loop over the dataset items of one cashtag in twitter_sentiment.py:
\* the polarities (in hundredths) of the posts with a non-blank text
RECURSIVE CollectPolarities(_, _)
CollectPolarities(items, sentiment_scores) ==
    IF items = <<>> THEN sentiment_scores
    ELSE LET tweet_text == Strip(ItemGet(Head(items).text, Val(<<>>)).v)
         IN CollectPolarities(Tail(items),
                IF tweet_text # <<>> THEN Append(sentiment_scores, Head(items).polarity)
                ELSE sentiment_scores)

RECURSIVE SumPolarities(_)
SumPolarities(sentiment_scores) ==
    IF sentiment_scores = <<>> THEN 0
    ELSE Head(sentiment_scores) + SumPolarities(Tail(sentiment_scores))

\* the value twitter_sentiment.py stores for one cashtag
SentimentLabel(feed) ==
    IF feed.exc # "none" THEN Str("Error fetching tweets")
    ELSE LET sentiment_scores == CollectPolarities(feed.val, <<>>)
         IN IF sentiment_scores = <<>> THEN Str("No tweets found")
            ELSE IF SumPolarities(sentiment_scores) > 0 THEN Str("Positive")
            ELSE IF SumPolarities(sentiment_scores) < 0 THEN Str("Negative")
            ELSE Str("Neutral")

\* overall_sentiments[cashtag] = value
DictSet(dict, key, value) ==
    IF \E i \in 1..Len(dict) : dict[i].Cashtag = key
    THEN [i \in 1..Len(dict) |->
            IF dict[i].Cashtag = key THEN [dict[i] EXCEPT !.Sentiment = value] ELSE dict[i]]
    ELSE Append(dict, [Cashtag |-> key, Sentiment |-> value])

Cashtag(n) == [i \in 1..n |-> IF i = 1 THEN "$" ELSE "A"]

Cashtags == {Cashtag(n) : n \in (MaxCashtagLen - 3)..MaxCashtagLen}

GoodPost == Post(TRUE, Val(150), Classified(800000, 200000))

AnalysisFeeds ==
    {Raised("ApifyApiError", <<>>)} \cup
    {Returned(items) : items \in
        {<<>>,
         <<GoodPost>>,
         <<Post(TRUE, Val(149), Classified(800000, 200000)),
           Post(FALSE, Null(0), Classified(800000, 200000))>>,
         <<GoodPost, Post(TRUE, Null(0), Classified(800000, 200000))>>,
         <<Post(TRUE, Missing(0), Classified(800000, 200000)),
           Post(TRUE, Val(150), Classified(900000, 100000)),
           Post(TRUE, Val(150), Classified(700000, 300000))>>,
         <<Post(TRUE, Val(150), Classified(20, 20))>>}}

TextPost(text, polarity) == [text |-> text, polarity |-> polarity]

SentimentFeeds ==
    {Raised("ApifyApiError", <<>>)} \cup
    {Returned(items) : items \in
        {<<>>,
         <<TextPost(Val(<<" ">>), 0), TextPost(Missing(0), 0)>>,
         <<TextPost(Val(<<" ", "g", "m">>), 50)>>,
         <<TextPost(Val(<<"g", "m", " ">>), -50)>>,
         <<TextPost(Val(<<"g", "m">>), 50), TextPost(Val(<<"g", " ", "m">>), -50)>>}}

Scripts == {"twitter_analysis", "twitter_sentiment"}

InitCashtags ==
    /\ IdleStore
    /\ IdleReopen
    /\ IdlePure
    /\ running \in Scripts
    /\ cashtags \in SeqsUpTo(Cashtags, MaxCashtags)
    /\ search_terms = <<>>
    /\ feeds = <<>>
    /\ overall_sentiments = NoSentiments

\* one iteration of `for cashtag in cashtags` in twitter_analysis.py
AnalysisCashtag ==
    /\ running = "twitter_analysis"
    /\ Len(search_terms) < Len(cashtags)
    /\ LET cashtag == cashtags[Len(search_terms) + 1]
       IN /\ search_terms' = Append(search_terms, analysis_search_term(cashtag))
          /\ \E feed \in AnalysisFeeds :
                /\ feeds' = Append(feeds, feed)
                /\ \E row \in AnalysisRows(cashtag, feed) : data' = Append(data, row)
    /\ UNCHANGED <<running, cashtags, overall_sentiments>>
    /\ UNCHANGED <<posts, iterated, bullishness_scores, storeVars, reopenVars, pairsVars, symbolVars>>

\* one iteration of `for cashtag in cashtags` in twitter_sentiment.py
SentimentCashtag ==
    /\ running = "twitter_sentiment"
    /\ Len(search_terms) < Len(cashtags)
    /\ LET cashtag == cashtags[Len(search_terms) + 1]
       IN /\ search_terms' = Append(search_terms, sentiment_search_term(cashtag))
          /\ \E feed \in SentimentFeeds :
                /\ feeds' = Append(feeds, feed)
                /\ overall_sentiments' = DictSet(overall_sentiments, cashtag, SentimentLabel(feed))
    /\ UNCHANGED <<running, cashtags, data>>
    /\ UNCHANGED <<posts, iterated, bullishness_scores, storeVars, reopenVars, pairsVars, symbolVars>>

NextCashtags == AnalysisCashtag \/ SentimentCashtag

SpecCashtags == InitCashtags /\ [][NextCashtags]_vars

StripsMarker(cashtag, term) == term = Tail(cashtag)

\* C23 (as stated): twitter_sentiment strips the leading marker of cashtags
\* longer than 6 characters and twitter_analysis of those longer than 7.
C23_ThresholdsAsAttributed ==
    \A i \in 1..Len(search_terms) :
        LET threshold == IF running = "twitter_sentiment" THEN 6 ELSE 7
        IN IF Len(cashtags[i]) > threshold
           THEN StripsMarker(cashtags[i], search_terms[i])
           ELSE search_terms[i] = cashtags[i]

\* C23 (amended): twitter_analysis strips the leading marker of cashtags
\* longer than 6 characters and twitter_sentiment of those longer than 7, and
\* both leave the other cashtags unchanged; the search term a script sent is
\* the one the other script derives for the same cashtag except when the
\* cashtag has exactly 7 characters.
C23_ThresholdsByScript ==
    \A i \in 1..Len(search_terms) :
        LET threshold == IF running = "twitter_analysis" THEN 6 ELSE 7
            other == IF running = "twitter_analysis"
                     THEN sentiment_search_term(cashtags[i])
                     ELSE analysis_search_term(cashtags[i])
        IN /\ IF Len(cashtags[i]) > threshold
              THEN StripsMarker(cashtags[i], search_terms[i])
              ELSE search_terms[i] = cashtags[i]
           /\ search_terms[i] = other <=> Len(cashtags[i]) # 7

\* C23 witness: twitter_sentiment searched a cashtag of 7 characters as it
\* is and one of 8 characters without its marker.
C23_Witness ==
    /\ running = "twitter_sentiment"
    /\ \E i, j \in 1..Len(search_terms) :
          /\ Len(cashtags[i]) = 7 /\ search_terms[i] = cashtags[i]
          /\ Len(cashtags[j]) = 8 /\ search_terms[j] = Tail(cashtags[j])

\* C23 witness: twitter_analysis searched a cashtag of 7 characters without
\* its marker and one of 6 characters as it is.
C23_WitnessAnalysis ==
    /\ running = "twitter_analysis"
    /\ \E i, j \in 1..Len(search_terms) :
          /\ Len(cashtags[i]) = 7 /\ search_terms[i] = Tail(cashtags[i])
          /\ Len(cashtags[j]) = 6 /\ search_terms[j] = cashtags[j]

IsResultValue(b) ==
    \/ b.kind \in {"num", "nan", "none"}
    \/ b.kind = "str" /\ b.v = "Error"

FeedRaises(feed) ==
    \/ feed.exc # "none"
    \/ \E k \in 1..Len(feed.val) :
          feed.val[k].relevant /\ feed.val[k].userFollowersCount.kind = "null"

C26_WitnessNone ==
    /\ running = "twitter_analysis"
    /\ Len(data) = 2
    /\ data[1].Bullishness.kind = "none"
    /\ feeds[2].exc = "none" /\ FeedRaises(feeds[2])
    /\ data[2].Bullishness.kind = "str"

====
